---- MODULE Spec2Model ----
(***************************************************************************)
(* compose/cli/main.py: the command line front end of Compose.  One run of *)
(* the process executes one command (up, create, run or exec) against a    *)
(* project.  The model follows the control flow of the command handlers,   *)
(* the calls they make on the project / the docker client, the shutdown    *)
(* signal handler they install and the exit code the process ends with.    *)
(* A step of the model is one blocking call of the handler: pc names the   *)
(* call in progress, and an interrupt (SIGINT/SIGTERM) may arrive while    *)
(* any of them is in progress.                                             *)
(***************************************************************************)
EXTENDS Integers, Sequences, FiniteSets, TLC

VARIABLES
    cmd,        \* the command being run: "up", "create", "run", "exec"
    opts,       \* its parsed options
    status,     \* the exit status the remote process ends with
    pc,         \* the blocking call in progress ("start" before, "done" after)
    handler,    \* SIGINT/SIGTERM disposition: "default" or "shutdown"
    calls,      \* the calls issued on the project / docker client and the log
                \* records written to the output, in order
    bridged,    \* terminal bridging (pty.start): "none", "running", "returned", "aborted"
    exit_code,  \* the local variable exit_code of run / exec (NoCode: unset)
    exitCode,   \* the exit code of the process (NoCode: still running)
    intAt       \* the value of pc at each interrupt received so far

vars == <<cmd, opts, status, pc, handler, calls, bridged, exit_code, exitCode, intAt>>

\* ------------------------------------------------------------------ bounds

MaxInterrupts == 3
MaxStatus == 3
MaxLogs == 2
MaxArgs == 3
DEFAULT_TIMEOUT == 10

Services == {"web", "db"}
StatusSet == 0..MaxStatus
NoCode == -1
NoTimeout == -1
TimeoutOpts == {NoTimeout, 5}

\* ------------------------------------------------------------------ options

NoOpts ==
    [d |-> FALSE, abort_on_container_exit |-> FALSE,
     force_recreate |-> FALSE, no_recreate |-> FALSE,
     build |-> FALSE, no_build |-> FALSE,
     rm |-> FALSE, no_deps |-> FALSE, has_deps |-> FALSE, index_ok |-> TRUE,
     all |-> FALSE, force |-> FALSE, yes |-> FALSE, existing |-> {},
     args |-> << >>,
     SERVICE |-> {}, timeout |-> NoTimeout]

UpOpts ==
    { [NoOpts EXCEPT !.d = d, !.abort_on_container_exit = a,
                     !.force_recreate = f, !.no_recreate = n,
                     !.build = b, !.no_build = nb,
                     !.SERVICE = s, !.timeout = t] :
        d \in BOOLEAN, a \in BOOLEAN, f \in BOOLEAN, n \in BOOLEAN,
        b \in BOOLEAN, nb \in BOOLEAN, s \in SUBSET Services, t \in TimeoutOpts }

CreateOpts ==
    { [NoOpts EXCEPT !.force_recreate = f, !.no_recreate = n,
                     !.build = b, !.no_build = nb, !.SERVICE = s] :
        f \in BOOLEAN, n \in BOOLEAN, b \in BOOLEAN, nb \in BOOLEAN,
        s \in SUBSET Services }

RunOpts ==
    { [NoOpts EXCEPT !.d = d, !.rm = r, !.no_deps = nd, !.has_deps = hd,
                     !.SERVICE = {s}] :
        d \in BOOLEAN, r \in BOOLEAN, nd \in BOOLEAN, hd \in BOOLEAN,
        s \in Services }

ExecOpts ==
    { [NoOpts EXCEPT !.d = d, !.index_ok = i, !.SERVICE = {s}] :
        d \in BOOLEAN, i \in BOOLEAN, s \in Services }

\* the containers a project may hold: of a service or one-off (created by
\* run), running or not
Containers == {"service_running", "service_stopped", "one_off_running", "one_off_stopped"}
IsOneOff(c) == c \in {"one_off_running", "one_off_stopped"}
IsRunning(c) == c \in {"service_running", "one_off_running"}

\* the SERVICE=NUM arguments of scale, each a string written as the sequence
\* of its parts: names, '=' and digits
ScaleArgs ==
    { <<"web", "=", "2">>, <<"db", "=", "1", "0">>,
      <<"web">>, <<"web", "=", "x">>, <<"web", "=", "2", "=", "1">>,
      <<"api", "=", "1">> }

SeqsUpTo(S, n) == UNION { [1..k -> S] : k \in 0..n }

ScaleOpts ==
    { [NoOpts EXCEPT !.args = a, !.timeout = t] :
        a \in SeqsUpTo(ScaleArgs, MaxArgs), t \in TimeoutOpts }

PortOpts ==
    { [NoOpts EXCEPT !.index_ok = i, !.SERVICE = {s}] :
        i \in BOOLEAN, s \in Services }

RmOpts ==
    { [NoOpts EXCEPT !.all = a, !.force = f, !.yes = y, !.existing = e] :
        a \in BOOLEAN, f \in BOOLEAN, y \in BOOLEAN, e \in SUBSET Containers }

\* timeout = int(options.get('--timeout') or DEFAULT_TIMEOUT)
Timeout(o) == IF o.timeout = NoTimeout THEN DEFAULT_TIMEOUT ELSE o.timeout

\* as convergence_strategy_from_opts, with --no-recreate left unhandled
convergence_strategy_from_opts_ForgetsNever(o) ==
    IF o.force_recreate /\ o.no_recreate THEN "UserError"
    ELSE IF o.force_recreate THEN "always"
    ELSE "changed"

convergence_strategy_from_opts(o) ==
    IF o.force_recreate /\ o.no_recreate THEN "UserError"
    ELSE IF o.force_recreate THEN "always"
    ELSE IF o.no_recreate THEN "never"
    ELSE "changed"

\* as build_action_from_opts, without the check of --build with --no-build
build_action_from_opts_NoConflictCheck(o) ==
    IF o.build THEN "force"
    ELSE IF o.no_build THEN "skip"
    ELSE "none"

build_action_from_opts(o) ==
    IF o.build /\ o.no_build THEN "UserError"
    ELSE IF o.build THEN "force"
    ELSE IF o.no_build THEN "skip"
    ELSE "none"

\* ------------------------------------------------------------------ calls

Call(op, names, timeout, strategy, do_build) ==
    [op |-> op, names |-> names, timeout |-> timeout,
     strategy |-> strategy, do_build |-> do_build,
     one_off |-> "default", removed |-> {}, num |-> "-"]

\* a call that passes a one_off filter; removed: the containers it removes
FilterCall(op, names, one_off, removed) ==
    [op |-> op, names |-> names, timeout |-> NoTimeout,
     strategy |-> "-", do_build |-> "-",
     one_off |-> one_off, removed |-> removed, num |-> "-"]

\* service.scale(num, timeout=timeout) on the service of that name
ScaleCall(name, num, timeout) ==
    [Call("service.scale", {name}, timeout, "-", "-") EXCEPT !.num = num]

ProjectCall(op, o) == Call(op, o.SERVICE, NoTimeout, "-", "-")
TimedCall(op, o) == Call(op, o.SERVICE, Timeout(o), "-", "-")
ClientCall(op) == Call(op, {"one_off"}, NoTimeout, "-", "-")

CallsOf(op) == { i \in 1..Len(calls) : calls[i].op = op }
CountOp(op) == Cardinality(CallsOf(op))

Issue(c) == calls' = Append(calls, c)

\* sys.exit(n), or the handler returning to main (n = 0)
Exit(n) == pc' = "done" /\ exitCode' = n

\* delivery of SIGINT / SIGTERM while the call named by pc is in progress
Interrupted ==
    /\ pc \notin {"start", "done"}
    /\ Len(intAt) < MaxInterrupts
    /\ intAt' = Append(intAt, pc)
    /\ UNCHANGED <<cmd, opts, status, handler>>

Init ==
    /\ cmd \in {"up", "create", "run", "exec", "rm", "port", "scale"}
    /\ opts \in CASE cmd = "up" -> UpOpts
                  [] cmd = "rm" -> RmOpts
                  [] cmd = "port" -> PortOpts
                  [] cmd = "scale" -> ScaleOpts
                  [] cmd = "create" -> CreateOpts
                  [] cmd = "run" -> RunOpts
                  [] OTHER -> ExecOpts
    /\ status \in StatusSet
    /\ pc = "start"
    /\ handler = "default"
    /\ calls = <<>>
    /\ bridged = "none"
    /\ exit_code = NoCode
    /\ exitCode = NoCode
    /\ intAt = <<>>

\* ------------------------------------------------------------------ up

\* as UpEnter, with up_shutdown_context installing the handler for -d as well
UpEnter_HandlerWhenDetached ==
    /\ cmd = "up" /\ pc = "start"
    /\ IF opts.d /\ opts.abort_on_container_exit
       THEN /\ Exit(1)
            /\ UNCHANGED <<handler, calls>>
       ELSE /\ handler' = "shutdown"
            /\ IF convergence_strategy_from_opts(opts) = "UserError"
                  \/ build_action_from_opts(opts) = "UserError"
               THEN Exit(1) /\ UNCHANGED calls
               ELSE /\ Issue(Call("project.up", opts.SERVICE, Timeout(opts),
                                  convergence_strategy_from_opts(opts),
                                  build_action_from_opts(opts)))
                    /\ pc' = "project_up"
                    /\ UNCHANGED exitCode
    /\ UNCHANGED <<cmd, opts, status, bridged, exit_code, intAt>>

\* TopLevelCommand.up, from its entry to the call of project.up: the option
\* check, up_shutdown_context installing the handler, and the evaluation of
\* the arguments of project.up.
UpEnter ==
    /\ cmd = "up" /\ pc = "start"
    /\ IF opts.d /\ opts.abort_on_container_exit
       THEN /\ Exit(1)
            /\ UNCHANGED <<handler, calls>>
       ELSE /\ handler' = IF opts.d THEN handler ELSE "shutdown"
            /\ IF convergence_strategy_from_opts(opts) = "UserError"
                  \/ build_action_from_opts(opts) = "UserError"
               THEN Exit(1) /\ UNCHANGED calls
               ELSE /\ Issue(Call("project.up", opts.SERVICE, Timeout(opts),
                                  convergence_strategy_from_opts(opts),
                                  build_action_from_opts(opts)))
                    /\ pc' = "project_up"
                    /\ UNCHANGED exitCode
    /\ UNCHANGED <<cmd, opts, status, bridged, exit_code, intAt>>

\* project.up returns: detached returns to main, attached starts the log printer
UpConverged ==
    /\ cmd = "up" /\ pc = "project_up"
    /\ IF opts.d
       THEN Exit(0)
       ELSE pc' = "log_printer_run" /\ UNCHANGED exitCode
    /\ UNCHANGED <<cmd, opts, status, handler, calls, bridged, exit_code, intAt>>

\* log_printer.run() writes the next record of a followed container to the output
LogEmitted ==
    /\ cmd = "up" /\ pc = "log_printer_run"
    /\ CountOp("log.emit") < MaxLogs
    /\ Issue(Call("log.emit", opts.SERVICE, NoTimeout, "-", "-"))
    /\ UNCHANGED <<cmd, opts, status, pc, handler, bridged, exit_code, exitCode, intAt>>

\* as LogPrinterReturns, without the stop of --abort-on-container-exit
LogPrinterReturns_NoCascadeStop ==
    /\ cmd = "up" /\ pc = "log_printer_run"
    /\ Exit(0)
    /\ UNCHANGED <<cmd, opts, status, handler, calls, bridged, exit_code, intAt>>

\* log_printer.run() returns
LogPrinterReturns ==
    /\ cmd = "up" /\ pc = "log_printer_run"
    /\ IF opts.abort_on_container_exit
       THEN /\ Issue(TimedCall("project.stop", opts))
            /\ pc' = "cascade_stop"
            /\ UNCHANGED exitCode
       ELSE Exit(0) /\ UNCHANGED calls
    /\ UNCHANGED <<cmd, opts, status, handler, bridged, exit_code, intAt>>

\* the project.stop of --abort-on-container-exit returns
CascadeStopReturns ==
    /\ cmd = "up" /\ pc = "cascade_stop"
    /\ Exit(0)
    /\ UNCHANGED <<cmd, opts, status, handler, calls, bridged, exit_code, intAt>>

\* the project.stop of the first except clause returns: the context manager
\* swallows the exception and up returns
GracefulStopReturns ==
    /\ cmd = "up" /\ pc = "graceful_stop"
    /\ Exit(0)
    /\ UNCHANGED <<cmd, opts, status, handler, calls, bridged, exit_code, intAt>>

\* the project.kill of the second except clause returns: sys.exit(2)
KillReturns ==
    /\ cmd = "up" /\ pc = "force_kill"
    /\ Exit(2)
    /\ UNCHANGED <<cmd, opts, status, handler, calls, bridged, exit_code, intAt>>

\* as UpShutdown, with the stop of the first interrupt handed to the
\* background while log_printer.run() goes on
UpShutdown_AsyncStop ==
    /\ cmd = "up" /\ handler = "shutdown"
    /\ Interrupted
    /\ CASE pc \in {"project_up", "cascade_stop"} ->
              /\ Issue(TimedCall("project.stop", opts))
              /\ pc' = "graceful_stop"
              /\ UNCHANGED exitCode
         [] pc = "log_printer_run" ->
              /\ Issue(TimedCall("project.stop", opts))
              /\ UNCHANGED <<pc, exitCode>>
         [] pc = "graceful_stop" ->
              /\ Issue(ProjectCall("project.kill", opts))
              /\ pc' = "force_kill"
              /\ UNCHANGED exitCode
         [] pc = "force_kill" ->
              /\ Exit(1)
              /\ UNCHANGED calls
         [] OTHER -> FALSE
    /\ UNCHANGED <<bridged, exit_code>>

\* as UpShutdown, with the except clauses swapped: the first interrupt kills
UpShutdown_KillFirst ==
    /\ cmd = "up" /\ handler = "shutdown"
    /\ Interrupted
    /\ CASE pc \in {"project_up", "log_printer_run", "cascade_stop"} ->
              /\ Issue(ProjectCall("project.kill", opts))
              /\ pc' = "force_kill"
              /\ UNCHANGED exitCode
         [] pc = "graceful_stop" ->
              /\ Issue(TimedCall("project.stop", opts))
              /\ pc' = "force_kill"
              /\ UNCHANGED exitCode
         [] pc = "force_kill" ->
              /\ Exit(1)
              /\ UNCHANGED calls
         [] OTHER -> FALSE
    /\ UNCHANGED <<bridged, exit_code>>

\* ShutdownException raised in attached up while the call named by pc runs
UpShutdown ==
    /\ cmd = "up" /\ handler = "shutdown"
    /\ Interrupted
    /\ CASE pc \in {"project_up", "log_printer_run", "cascade_stop"} ->
              /\ Issue(TimedCall("project.stop", opts))
              /\ pc' = "graceful_stop"
              /\ UNCHANGED exitCode
         [] pc = "graceful_stop" ->
              /\ Issue(ProjectCall("project.kill", opts))
              /\ pc' = "force_kill"
              /\ UNCHANGED exitCode
         [] pc = "force_kill" ->
              /\ Exit(1)
              /\ UNCHANGED calls
         [] OTHER -> FALSE
    /\ UNCHANGED <<bridged, exit_code>>

\* ------------------------------------------------------------------ create

CreateEnter ==
    /\ cmd = "create" /\ pc = "start"
    /\ IF convergence_strategy_from_opts(opts) = "UserError"
          \/ build_action_from_opts(opts) = "UserError"
       THEN Exit(1) /\ UNCHANGED calls
       ELSE /\ Issue(Call("project.create", opts.SERVICE, NoTimeout,
                          convergence_strategy_from_opts(opts),
                          build_action_from_opts(opts)))
            /\ pc' = "project_create"
            /\ UNCHANGED exitCode
    /\ UNCHANGED <<cmd, opts, status, handler, bridged, exit_code, intAt>>

CreateReturns ==
    /\ cmd = "create" /\ pc = "project_create"
    /\ Exit(0)
    /\ UNCHANGED <<cmd, opts, status, handler, calls, bridged, exit_code, intAt>>

\* ------------------------------------------------------------------ run

\* remove_container(): removes the one-off container when --rm was given
\* and then goes on to `via`; without --rm goes there at once
RemoveThen(via, code) ==
    IF opts.rm
    THEN /\ Issue(ClientCall("client.remove_container"))
         /\ pc' = via
         /\ UNCHANGED exitCode
    ELSE /\ Exit(code)
         /\ UNCHANGED calls

\* as RunEnter, bringing the dependencies up whatever --no-deps says
RunEnter_IgnoresNoDeps ==
    /\ cmd = "run" /\ pc = "start"
    /\ IF opts.has_deps
       THEN /\ Issue(Call("project.up", {"deps"}, NoTimeout, "never", "-"))
            /\ pc' = "deps_up"
       ELSE /\ Issue(ClientCall("service.create_container"))
            /\ pc' = "create_container"
    /\ UNCHANGED <<cmd, opts, status, handler, bridged, exit_code, exitCode, intAt>>

\* TopLevelCommand.run and run_one_off_container up to its first call
RunEnter ==
    /\ cmd = "run" /\ pc = "start"
    /\ IF ~opts.no_deps /\ opts.has_deps
       THEN /\ Issue(Call("project.up", {"deps"}, NoTimeout, "never", "-"))
            /\ pc' = "deps_up"
       ELSE /\ Issue(ClientCall("service.create_container"))
            /\ pc' = "create_container"
    /\ UNCHANGED <<cmd, opts, status, handler, bridged, exit_code, exitCode, intAt>>

\* project.up of the dependencies returns
RunDepsUp ==
    /\ cmd = "run" /\ pc = "deps_up"
    /\ Issue(ClientCall("service.create_container"))
    /\ pc' = "create_container"
    /\ UNCHANGED <<cmd, opts, status, handler, bridged, exit_code, exitCode, intAt>>

\* create_container returns: detached starts the container; attached installs
\* the shutdown handler, sets the pty up and starts the container
RunCreated ==
    /\ cmd = "run" /\ pc = "create_container"
    /\ Issue(ClientCall("service.start_container"))
    /\ IF opts.d
       THEN pc' = "start_container_d" /\ UNCHANGED handler
       ELSE pc' = "start_container" /\ handler' = "shutdown"
    /\ UNCHANGED <<cmd, opts, status, bridged, exit_code, exitCode, intAt>>

\* detached: start_container returns, the name is printed, run returns
RunStartedDetached ==
    /\ cmd = "run" /\ pc = "start_container_d"
    /\ Exit(0)
    /\ UNCHANGED <<cmd, opts, status, handler, calls, bridged, exit_code, intAt>>

\* attached: start_container returns, pty.start(sockets) begins
RunStarted ==
    /\ cmd = "run" /\ pc = "start_container"
    /\ pc' = "pty_start"
    /\ bridged' = "running"
    /\ UNCHANGED <<cmd, opts, status, handler, calls, exit_code, exitCode, intAt>>

\* pty.start returns, container.wait() begins
RunPtyReturns ==
    /\ cmd = "run" /\ pc = "pty_start"
    /\ bridged' = "returned"
    /\ Issue(ClientCall("container.wait"))
    /\ pc' = "container_wait"
    /\ UNCHANGED <<cmd, opts, status, handler, exit_code, exitCode, intAt>>

\* as RunWaitReturns, with the result of container.wait() dropped
RunWaitReturns_IgnoresStatus ==
    /\ cmd = "run" /\ pc = "container_wait"
    /\ exit_code' = 0
    /\ RemoveThen("remove_container", 0)
    /\ UNCHANGED <<cmd, opts, status, handler, bridged, intAt>>

\* exit_code = container.wait(); remove_container(); sys.exit(exit_code)
RunWaitReturns ==
    /\ cmd = "run" /\ pc = "container_wait"
    /\ exit_code' = status
    /\ RemoveThen("remove_container", status)
    /\ UNCHANGED <<cmd, opts, status, handler, bridged, intAt>>

\* project.client.stop of the first except clause returns: exit_code = 1,
\* remove_container(), sys.exit(exit_code)
RunStopReturns ==
    /\ cmd = "run" /\ pc = "client_stop"
    /\ exit_code' = 1
    /\ RemoveThen("remove_container", 1)
    /\ UNCHANGED <<cmd, opts, status, handler, bridged, intAt>>

\* project.client.stop raises: the error leaves run_one_off_container and
\* the process ends with the failure code
RunStopFails ==
    /\ cmd = "run" /\ pc = "client_stop"
    /\ Exit(1)
    /\ UNCHANGED <<cmd, opts, status, handler, calls, bridged, exit_code, intAt>>

\* remove_container() of line 882 returns: sys.exit(exit_code)
RunRemoveReturns ==
    /\ cmd = "run" /\ pc = "remove_container"
    /\ Exit(exit_code)
    /\ UNCHANGED <<cmd, opts, status, handler, calls, bridged, exit_code, intAt>>

\* project.client.kill of the second except clause returns:
\* remove_container(force=True), sys.exit(2)
RunKillReturns ==
    /\ cmd = "run" /\ pc = "client_kill"
    /\ RemoveThen("remove_container_forced", 2)
    /\ UNCHANGED <<cmd, opts, status, handler, bridged, exit_code, intAt>>

RunForcedRemoveReturns ==
    /\ cmd = "run" /\ pc = "remove_container_forced"
    /\ Exit(2)
    /\ UNCHANGED <<cmd, opts, status, handler, calls, bridged, exit_code, intAt>>

\* ShutdownException raised in attached run while the call named by pc runs
RunShutdown ==
    /\ cmd = "run" /\ handler = "shutdown"
    /\ Interrupted
    /\ CASE pc \in {"start_container", "pty_start", "container_wait"} ->
              /\ Issue(ClientCall("client.stop"))
              /\ pc' = "client_stop"
              /\ bridged' = IF bridged = "running" THEN "aborted" ELSE bridged
              /\ UNCHANGED exitCode
         [] pc = "client_stop" ->
              /\ Issue(ClientCall("client.kill"))
              /\ pc' = "client_kill"
              /\ UNCHANGED <<bridged, exitCode>>
         [] pc \in {"client_kill", "remove_container_forced", "remove_container"} ->
              /\ Exit(1)
              /\ UNCHANGED <<bridged, calls>>
         [] OTHER -> FALSE
    /\ UNCHANGED exit_code

\* ------------------------------------------------------------------ exec

\* the exit code exec_inspect reports: the final status once the process
\* has ended, none (sys.exit(None) ends the process with 0) while it runs
ExitCodeOf(b) == IF b = "returned" THEN {status} ELSE {status, 0}

\* as ExecEnter, without the lookup of the container by index
ExecEnter_NoIndexCheck ==
    /\ cmd = "exec" /\ pc = "start"
    /\ Issue(ClientCall("container.create_exec"))
    /\ pc' = "create_exec"
    /\ UNCHANGED <<cmd, opts, status, handler, bridged, exit_code, exitCode, intAt>>

\* TopLevelCommand.exec_command up to create_exec
ExecEnter ==
    /\ cmd = "exec" /\ pc = "start"
    /\ IF ~opts.index_ok
       THEN Exit(1) /\ UNCHANGED calls
       ELSE /\ Issue(ClientCall("container.create_exec"))
            /\ pc' = "create_exec"
            /\ UNCHANGED exitCode
    /\ UNCHANGED <<cmd, opts, status, handler, bridged, exit_code, intAt>>

\* create_exec returns: detached starts the exec; attached installs the
\* shutdown handler and starts the pty
ExecCreated ==
    /\ cmd = "exec" /\ pc = "create_exec"
    /\ IF opts.d
       THEN /\ Issue(ClientCall("container.start_exec"))
            /\ pc' = "start_exec_d"
            /\ UNCHANGED <<handler, bridged>>
       ELSE /\ handler' = "shutdown"
            /\ bridged' = "running"
            /\ pc' = "exec_pty_start"
            /\ UNCHANGED calls
    /\ UNCHANGED <<cmd, opts, status, exit_code, exitCode, intAt>>

ExecStartedDetached ==
    /\ cmd = "exec" /\ pc = "start_exec_d"
    /\ Exit(0)
    /\ UNCHANGED <<cmd, opts, status, handler, calls, bridged, exit_code, intAt>>

\* pty.start() returns, exec_inspect begins
ExecPtyReturns ==
    /\ cmd = "exec" /\ pc = "exec_pty_start"
    /\ bridged' = "returned"
    /\ Issue(ClientCall("client.exec_inspect"))
    /\ pc' = "exec_inspect"
    /\ UNCHANGED <<cmd, opts, status, handler, exit_code, exitCode, intAt>>

\* exit_code = exec_inspect(exec_id).get("ExitCode"); sys.exit(exit_code)
ExecInspectReturns ==
    /\ cmd = "exec" /\ pc = "exec_inspect"
    /\ \E c \in ExitCodeOf(bridged) :
          /\ exit_code' = c
          /\ Exit(c)
    /\ UNCHANGED <<cmd, opts, status, handler, calls, bridged, intAt>>

\* as ExecShutdown, stopping the container on the first interrupt as run does
ExecShutdown_StopsRemote ==
    /\ cmd = "exec" /\ handler = "shutdown"
    /\ Interrupted
    /\ CASE pc = "exec_pty_start" ->
              /\ bridged' = "aborted"
              /\ calls' = calls \o <<ClientCall("client.stop"),
                                     ClientCall("client.exec_inspect")>>
              /\ pc' = "exec_inspect"
              /\ UNCHANGED exitCode
         [] pc = "exec_inspect" ->
              /\ Exit(1)
              /\ UNCHANGED <<bridged, calls>>
         [] OTHER -> FALSE
    /\ UNCHANGED exit_code

\* ShutdownException raised in attached exec while the call named by pc runs
ExecShutdown ==
    /\ cmd = "exec" /\ handler = "shutdown"
    /\ Interrupted
    /\ CASE pc = "exec_pty_start" ->
              /\ bridged' = "aborted"
              /\ Issue(ClientCall("client.exec_inspect"))
              /\ pc' = "exec_inspect"
              /\ UNCHANGED exitCode
         [] pc = "exec_inspect" ->
              /\ Exit(1)
              /\ UNCHANGED <<bridged, calls>>
         [] OTHER -> FALSE
    /\ UNCHANGED exit_code

\* ------------------------------------------------------------------ port

\* TopLevelCommand.port up to get_local_port: a container of that index
\* missing is a UserError
PortEnter ==
    /\ cmd = "port" /\ pc = "start"
    /\ IF ~opts.index_ok
       THEN Exit(1) /\ UNCHANGED calls
       ELSE /\ Issue(ClientCall("container.get_local_port"))
            /\ pc' = "get_local_port"
            /\ UNCHANGED exitCode
    /\ UNCHANGED <<cmd, opts, status, handler, bridged, exit_code, intAt>>

\* get_local_port returns and the port is printed
PortReturns ==
    /\ cmd = "port" /\ pc = "get_local_port"
    /\ Exit(0)
    /\ UNCHANGED <<cmd, opts, status, handler, calls, bridged, exit_code, intAt>>

\* ------------------------------------------------------------------ rm

\* as one_off_filter, including the one-off containers whatever --all says
one_off_filter_AlwaysInclude(o) == "include"

\* the OneOffFilter rm chooses from --all
one_off_filter(o) == IF o.all THEN "include" ELSE "exclude"

\* project.containers(stopped=True, one_off=f): the containers of the
\* project, the one-off ones among them only when the filter includes them
project_containers(existing, f) ==
    { c \in existing : f = "include" \/ ~IsOneOff(c) }

\* project.remove_stopped(one_off=f): removes the containers the filter
\* selects that are not running
project_remove_stopped(existing, f) ==
    { c \in project_containers(existing, f) : ~IsRunning(c) }

\* TopLevelCommand.rm up to the listing of the containers
RmEnter ==
    /\ cmd = "rm" /\ pc = "start"
    /\ Issue(FilterCall("project.containers", opts.SERVICE, one_off_filter(opts), {}))
    /\ pc' = "project_containers"
    /\ UNCHANGED <<cmd, opts, status, handler, bridged, exit_code, exitCode, intAt>>

\* the listing returns: the containers not running are picked, and removed
\* when there are some and --force or the answer to the prompt says so
RmListed ==
    /\ cmd = "rm" /\ pc = "project_containers"
    /\ LET all_containers == project_containers(opts.existing, one_off_filter(opts))
           stopped_containers == { c \in all_containers : ~IsRunning(c) }
       IN  IF stopped_containers # {} /\ (opts.force \/ opts.yes)
           THEN /\ Issue(FilterCall("project.remove_stopped", opts.SERVICE,
                                    one_off_filter(opts),
                                    project_remove_stopped(opts.existing,
                                                           one_off_filter(opts))))
                /\ pc' = "remove_stopped"
                /\ UNCHANGED exitCode
           ELSE Exit(0) /\ UNCHANGED calls
    /\ UNCHANGED <<cmd, opts, status, handler, bridged, exit_code, intAt>>

\* project.remove_stopped returns
RmRemoved ==
    /\ cmd = "rm" /\ pc = "remove_stopped"
    /\ Exit(0)
    /\ UNCHANGED <<cmd, opts, status, handler, calls, bridged, exit_code, intAt>>

\* ------------------------------------------------------------------ main

\* the errors main has an except clause for
Errors ==
    {"UserError", "NoSuchService", "ConfigurationError", "BuildError",
     "StreamOutputError", "NeedsBuildError", "ConnectionError"}

\* as main_exit_code, with the ConnectionError clause passing instead of exiting
main_exit_code_ConnectionErrorPasses(e) ==
    CASE e \in {"KeyboardInterrupt", "ShutdownException"} -> 1
      [] e \in {"UserError", "NoSuchService", "ConfigurationError"} -> 1
      [] e = "BuildError" -> 1
      [] e = "StreamOutputError" -> 1
      [] e = "NeedsBuildError" -> 1
      [] OTHER -> 0

\* the exit code main ends the process with when the command raises e
main_exit_code(e) ==
    CASE e \in {"KeyboardInterrupt", "ShutdownException"} -> 1
      [] e \in {"UserError", "NoSuchService", "ConfigurationError"} -> 1
      [] e = "BuildError" -> 1
      [] e = "StreamOutputError" -> 1
      [] e = "NeedsBuildError" -> 1
      [] e = "ConnectionError" -> 1

\* ------------------------------------------------------------------ scale

\* '=' in s
HasEquals(s) == \E i \in 1..Len(s) : s[i] = "="

\* s.split('=', 1): the parts before and after the first '='
split_once(s) ==
    LET i == CHOOSE j \in 1..Len(s) :
                 s[j] = "=" /\ \A h \in 1..(j - 1) : s[h] # "="
    IN  <<SubSeq(s, 1, i - 1), SubSeq(s, i + 1, Len(s))>>

Digits == {"0", "1", "2"}

DigitValue(t) == CASE t = "0" -> 0 [] t = "1" -> 1 [] t = "2" -> 2

\* whether int(num) returns (it raises ValueError otherwise)
IsInt(num) == Len(num) >= 1 /\ \A i \in 1..Len(num) : num[i] \in Digits

RECURSIVE IntOf(_)
\* int(num) for a num of digits
IntOf(num) ==
    IF num = << >> THEN 0
    ELSE 10 * IntOf(SubSeq(num, 1, Len(num) - 1)) + DigitValue(num[Len(num)])

\* whether project.get_service(name) returns (it raises NoSuchService
\* otherwise)
ServiceExists(name) == Len(name) = 1 /\ name[1] \in Services

\* the command raises e, which reaches main
Raise(e) ==
    /\ Issue(Call("raise", {e}, NoTimeout, "-", "-"))
    /\ Exit(main_exit_code(e))

\* as ScaleStep, with every argument validated before the first is applied
ScaleStep_ValidatesAllFirst(k) ==
    IF k > Len(opts.args)
    THEN Exit(0) /\ UNCHANGED calls
    ELSE IF \E i \in k..Len(opts.args) : ~HasEquals(opts.args[i])
    THEN Raise("UserError")
    ELSE IF \E i \in k..Len(opts.args) : ~IsInt(split_once(opts.args[i])[2])
    THEN Raise("UserError")
    ELSE IF ~ServiceExists(split_once(opts.args[k])[1])
    THEN Raise("NoSuchService")
    ELSE /\ Issue(ScaleCall(split_once(opts.args[k])[1][1],
                            IntOf(split_once(opts.args[k])[2]), Timeout(opts)))
         /\ pc' = "service_scale"
         /\ UNCHANGED exitCode

\* one turn of the loop over options['SERVICE=NUM'], at argument k: the
\* argument is checked, then its service scaled; the loop ends after the last
ScaleStep(k) ==
    IF k > Len(opts.args)
    THEN Exit(0) /\ UNCHANGED calls
    ELSE LET s == opts.args[k]
         IN  IF ~HasEquals(s)
             THEN Raise("UserError")
             ELSE LET service_name == split_once(s)[1]
                      num == split_once(s)[2]
                  IN  IF ~IsInt(num)
                      THEN Raise("UserError")
                      ELSE IF ~ServiceExists(service_name)
                      THEN Raise("NoSuchService")
                      ELSE /\ Issue(ScaleCall(service_name[1], IntOf(num),
                                              Timeout(opts)))
                           /\ pc' = "service_scale"
                           /\ UNCHANGED exitCode

\* TopLevelCommand.scale up to the first service.scale
ScaleEnter ==
    /\ cmd = "scale" /\ pc = "start"
    /\ ScaleStep(1)
    /\ UNCHANGED <<cmd, opts, status, handler, bridged, exit_code, intAt>>

\* service.scale returns and the loop goes on to the next argument
ScaleReturns ==
    /\ cmd = "scale" /\ pc = "service_scale"
    /\ ScaleStep(CountOp("service.scale") + 1)
    /\ UNCHANGED <<cmd, opts, status, handler, bridged, exit_code, intAt>>

\* the convergence call in progress (project.up, project.create, the
\* project.up of run's dependencies, create_container) raises an error:
\* no except clause of the command catches it and it reaches main
CommandRaises ==
    /\ pc \in {"project_up", "project_create", "deps_up", "create_container"}
    /\ \E e \in Errors :
          /\ Issue(Call("raise", {e}, NoTimeout, "-", "-"))
          /\ Exit(main_exit_code(e))
    /\ UNCHANGED <<cmd, opts, status, handler, bridged, exit_code, intAt>>

\* an interrupt before any shutdown handler is installed: KeyboardInterrupt
\* reaches main, which exits with 1
KeyboardInterrupt ==
    /\ handler = "default"
    /\ Interrupted
    /\ Exit(1)
    /\ UNCHANGED <<calls, bridged, exit_code>>

\* the state of the shutdown session, read off the handler installed and
\* the clause of the try statements control is in
ShutdownStateOf(p, h) ==
    CASE p = "done" -> "Terminated"
      [] h = "default" -> "NoSession"
      [] p \in {"project_up", "log_printer_run", "cascade_stop",
                "start_container", "pty_start", "container_wait",
                "exec_pty_start"} -> "Active"
      [] p \in {"graceful_stop", "client_stop"} -> "GracefulStopRequested"
      [] p \in {"force_kill", "client_kill", "remove_container_forced"} ->
             "ForceKillRequested"
      [] OTHER -> "Terminated"

ShutdownState == ShutdownStateOf(pc, handler)

Next ==
    \/ UpEnter \/ UpConverged \/ LogEmitted \/ LogPrinterReturns \/ CascadeStopReturns
    \/ GracefulStopReturns \/ KillReturns \/ UpShutdown
    \/ CreateEnter \/ CreateReturns
    \/ RunEnter \/ RunDepsUp \/ RunCreated \/ RunStartedDetached \/ RunStarted
    \/ RunPtyReturns \/ RunWaitReturns \/ RunStopReturns \/ RunStopFails
    \/ RunRemoveReturns \/ RunKillReturns \/ RunForcedRemoveReturns
    \/ RunShutdown
    \/ ExecEnter \/ ExecCreated \/ ExecStartedDetached \/ ExecPtyReturns
    \/ ExecInspectReturns \/ ExecShutdown
    \/ PortEnter \/ PortReturns
    \/ ScaleEnter \/ ScaleReturns
    \/ RmEnter \/ RmListed \/ RmRemoved
    \/ KeyboardInterrupt \/ CommandRaises

Spec == Init /\ [][Next]_vars

\* ------------------------------------------------------------------ properties

\* the calls that are in progress inside the try body of up_shutdown_context
UpWindow == {"project_up", "log_printer_run", "cascade_stop"}
\* the calls that are in progress inside the inner try body of run_one_off_container
RunWindow == {"start_container", "pty_start", "container_wait"}

AttachedUp == cmd = "up" /\ ~opts.d /\ handler = "shutdown"

\* C1: in an attached up, a single interrupt delivered anywhere in the guarded
\* window (project.up, log streaming, the cascade-stop stop) moves the session
\* to GracefulStopRequested and gives exactly one project.stop call, with the
\* requested service names and timeout, over the whole run, and no kill.
C1_SingleInterruptStopsOnce ==
    (AttachedUp /\ Len(intAt) = 1 /\ intAt[1] \in UpWindow) =>
        /\ ShutdownState \in {"GracefulStopRequested", "Terminated"}
        /\ CountOp("project.stop") = 1
        /\ \A i \in CallsOf("project.stop") : calls[i] = TimedCall("project.stop", opts)
        /\ CountOp("project.kill") = 0

\* C2: in an attached up, a second interrupt received while the graceful stop
\* of the first is in progress moves the session to ForceKillRequested, issues
\* project.kill on the same service names, and the process then ends with exit
\* code 2; kill is never issued without a first interrupt before it.
C2_SecondInterruptKillsAndExits2 ==
    /\ (AttachedUp /\ Len(intAt) >= 2 /\ intAt[2] = "graceful_stop") =>
          /\ CountOp("project.kill") = 1
          /\ \A i \in CallsOf("project.kill") : calls[i].names = opts.SERVICE
          /\ pc # "done" => ShutdownState = "ForceKillRequested"
          /\ pc = "done" => exitCode = 2
    /\ (cmd = "up" /\ CountOp("project.kill") > 0) =>
          /\ Len(intAt) >= 2
          /\ intAt[1] \in UpWindow

\* C3: an interrupt received once the session is in ForceKillRequested (while
\* project.kill runs) is a no-op: the kill goes on, no further call is issued
\* and the exit code stays the forced-shutdown code 2.
C3_InterruptAfterForceKillIsNoOp ==
    (AttachedUp /\ Len(intAt) >= 3 /\ intAt[3] = "force_kill") =>
        /\ CountOp("project.kill") = 1
        /\ CountOp("project.stop") = 1
        /\ pc = "force_kill" \/ (pc = "done" /\ exitCode = 2)

Rank(s) ==
    CASE s = "NoSession" -> 0
      [] s = "Active" -> 1
      [] s = "GracefulStopRequested" -> 2
      [] s = "ForceKillRequested" -> 3
      [] OTHER -> 4

StateAdvances ==
    cmd \in {"up", "run"} =>
        /\ Rank(ShutdownStateOf(pc', handler')) >= Rank(ShutdownState)
        /\ ShutdownStateOf(pc', handler') = "ForceKillRequested" =>
              ShutdownState \in {"GracefulStopRequested", "ForceKillRequested"}
        /\ ShutdownStateOf(pc', handler') = "GracefulStopRequested" =>
              ShutdownState \in {"Active", "GracefulStopRequested"}
        /\ ShutdownState = "Terminated" =>
              ShutdownStateOf(pc', handler') = "Terminated"

\* C4: over every sequence of interrupts and completions of up and run the
\* shutdown state only advances (Active, GracefulStopRequested, then
\* ForceKillRequested or Terminated): no step goes back, ForceKillRequested is
\* entered only from GracefulStopRequested, and Terminated is never left.
C4_StateOnlyAdvances == [][StateAdvances]_vars

\* a session that went through GracefulStopRequested and ForceKillRequested
\* and has ended
C4_Witness ==
    /\ cmd \in {"up", "run"} /\ pc = "done"
    /\ Len(intAt) >= 2
    /\ intAt[2] \in {"graceful_stop", "client_stop"}
    /\ exitCode = 2

Conflicting ==
    \/ opts.force_recreate /\ opts.no_recreate
    \/ opts.build /\ opts.no_build
    \/ cmd = "up" /\ opts.d /\ opts.abort_on_container_exit

AttachedSession == cmd \in {"run", "exec"} /\ handler = "shutdown"

\* the double-interrupt path of run: the second interrupt arrives during the stop
Forced == Len(intAt) >= 2 /\ intAt[2] = "client_stop"

C9_RunInterruptEscalation ==
    (cmd = "run" /\ handler = "shutdown") =>
        /\ (Len(intAt) >= 1 /\ intAt[1] \in RunWindow) =>
              CountOp("client.stop") = 1
        /\ (Len(intAt) = 1 /\ intAt[1] \in RunWindow /\ pc = "done"
                /\ exit_code # NoCode /\ status # 1) =>
              exitCode # 1
        /\ (Len(intAt) >= 1 /\ intAt[1] \in RunWindow /\ pc = "done"
                /\ exit_code = NoCode /\ ~Forced) =>
              exitCode = 1
        /\ Forced =>
              /\ CountOp("client.kill") = 1
              /\ pc = "done" =>
                    /\ exitCode = 2
                    /\ CountOp("client.remove_container") = (IF opts.rm THEN 1 ELSE 0)
        /\ \A i \in CallsOf("client.kill") :
              \E j \in CallsOf("client.stop") : j < i

\* C10 (as stated): in an attached exec the first interrupt issues a graceful
\* stop of the remote process and a second interrupt kills it and exits with 2.
C10_ExecInterruptEscalation ==
    (cmd = "exec" /\ handler = "shutdown") =>
        /\ (Len(intAt) >= 1 /\ intAt[1] = "exec_pty_start") =>
              CountOp("client.stop") = 1
        /\ (Len(intAt) >= 2 /\ pc = "done") =>
              /\ CountOp("client.kill") = 1
              /\ exitCode = 2

\* C10 (amended): in an attached exec there is no escalation.  The first
\* interrupt only ends the terminal bridging: no stop and no kill is ever
\* issued, exec_inspect is called and the command exits with the code it
\* reports (the final status, or 0 while the process still runs); a second
\* interrupt, arriving during exec_inspect, ends the command with exit code 1.
C10_ExecInterruptOnlyEndsBridging ==
    cmd = "exec" =>
        /\ \A i \in 1..Len(calls) :
              calls[i].op \notin {"client.stop", "client.kill",
                                  "project.stop", "project.kill"}
        /\ (Len(intAt) >= 1 /\ intAt[1] = "exec_pty_start") =>
              /\ bridged = "aborted"
              /\ CountOp("client.exec_inspect") = 1
              /\ (pc = "done" /\ Len(intAt) = 1) => exitCode \in {status, 0}
        /\ (handler = "shutdown" /\ Len(intAt) = 2) =>
              /\ pc = "done"
              /\ exitCode = 1

C10_Witness ==
    /\ cmd = "exec" /\ handler = "shutdown"
    /\ Len(intAt) = 2 /\ intAt[1] = "exec_pty_start"
    /\ pc = "done" /\ exitCode = 1

Detached == cmd \in {"up", "run", "exec"} /\ opts.d

\* the calls that stop, kill or remove containers, or read a remote result
TeardownOps ==
    {"project.stop", "project.kill", "client.stop", "client.kill",
     "client.remove_container", "container.wait", "client.exec_inspect"}

\* C11: in detached mode (up -d, run -d, exec -d) the command returns right
\* after the containers / the process are started: no shutdown handler is
\* installed, no log or terminal stream is attached, and no stop, kill or
\* remove is issued, so what was started is left running.
C11_DetachedLeavesRunning ==
    Detached =>
        /\ handler = "default"
        /\ bridged = "none"
        /\ pc \notin {"log_printer_run", "pty_start", "exec_pty_start",
                      "container_wait", "exec_inspect"}
        /\ \A i \in 1..Len(calls) :
              calls[i].op \notin TeardownOps \cup {"log.emit"}
        /\ (pc = "done" /\ exitCode = 0) =>
              calls[Len(calls)].op \in {"project.up", "service.start_container",
                                        "container.start_exec"}

C11_Witness ==
    /\ cmd = "run" /\ opts.d /\ opts.rm
    /\ pc = "done" /\ exitCode = 0
    /\ calls[Len(calls)].op = "service.start_container"

\* C12 (as stated): after the first interrupt of an attached up the stop is
\* issued asynchronously and output streaming continues: while the graceful
\* stop is in progress a log record that arrives is still written.
C12_StreamingContinuesDuringStop ==
    (AttachedUp /\ pc = "graceful_stop" /\ CountOp("log.emit") < MaxLogs) =>
        ENABLED LogEmitted

\* C12 (amended): after the first interrupt of an attached up the stop is
\* issued synchronously by the interrupt path, after log_printer.run() has
\* been left: no log record is written once a stop has been issued, and none
\* while the graceful stop is in progress.
C12_NoOutputOnceStopIssued ==
    AttachedUp =>
        /\ \A i \in CallsOf("project.stop") : \A j \in CallsOf("log.emit") : j < i
        /\ pc = "graceful_stop" => ~ENABLED LogEmitted
        /\ (Len(intAt) >= 1 /\ intAt[1] \in UpWindow) =>
              /\ pc # "log_printer_run"
              /\ CountOp("project.stop") >= 1

C12_Witness ==
    /\ AttachedUp /\ pc = "graceful_stop"
    /\ intAt = <<"log_printer_run">>
    /\ CountOp("log.emit") = 1
    /\ calls[Len(calls)].op = "project.stop"

\* the forced (double-interrupt) shutdown path of up or run
ForcedPath ==
    /\ cmd \in {"up", "run"}
    /\ Len(intAt) >= 2
    /\ intAt[2] \in {"graceful_stop", "client_stop"}
    /\ CountOp(IF cmd = "up" THEN "project.kill" ELSE "client.kill") = 1

\* the exit code is 1 for every error main handles, for the user errors of
\* the option and index checks and for an interrupt outside a guarded window
ErrorsExitOne ==
    pc = "done" =>
        /\ CountOp("raise") > 0 => exitCode = 1
        /\ (cmd \in {"up", "create"} /\ Conflicting) => exitCode = 1
        /\ (cmd \in {"exec", "port"} /\ ~opts.index_ok) => exitCode = 1
        /\ (intAt # << >> /\ handler = "default") => exitCode = 1
        /\ (intAt # << >>
              /\ intAt[Len(intAt)] \in {"remove_container", "exec_inspect"}) =>
              exitCode = 1

\* C13 (as stated): every user, configuration, build, pull/stream,
\* needs-build and connection error, and an interrupt outside a guarded
\* attached window, ends the process with 1; the code 2 is produced only on
\* the forced (double-interrupt) path of up or run.
C13_TwoOnlyOnForcedPath ==
    /\ ErrorsExitOne
    /\ exitCode = 2 => ForcedPath

\* C13 (amended): as stated for the errors and the interrupt; the code 2 is
\* produced by the command line itself only on the forced path of up or
\* run and never by an error path, and besides that an attached run or exec
\* ends with 2 when 2 is the exit status of the remote process.
C13_TwoOnlyForcedOrRemote ==
    /\ ErrorsExitOne
    /\ exitCode = 2 =>
          \/ ForcedPath
          \/ AttachedSession /\ status = 2 /\ exit_code = 2 /\ CountOp("raise") = 0
    /\ (CountOp("raise") > 0 \/ handler = "default") => exitCode # 2

C13_Witness ==
    /\ cmd = "up" /\ ~opts.d /\ pc = "done"
    /\ CountOp("raise") = 1
    /\ calls[Len(calls)].names = {"ConnectionError"}
    /\ exitCode = 1

\* the stop of the first interrupt of run raised (RunStopFails)
StopFailed ==
    /\ cmd = "run" /\ pc = "done"
    /\ Len(intAt) = 1 /\ intAt[1] \in RunWindow
    /\ exit_code = NoCode

\* C14: an attached run --rm removes the one-off container exactly once
\* before the process exits, on every exit path on which no runtime call
\* fails (normal completion, one interrupt and graceful stop, two interrupts
\* and kill); without --rm, and in detached mode, it is never removed.
C14_RemovedExactlyOnce ==
    (cmd = "run" /\ pc = "done" /\ ~StopFailed) =>
        /\ (opts.rm /\ handler = "shutdown") =>
              CountOp("client.remove_container") = 1
        /\ (~opts.rm \/ opts.d) =>
              CountOp("client.remove_container") = 0

\* C15: the bulk operations of the command line leave one-off containers
\* out unless a filter including them is passed: rm removes one-off
\* containers only with --all, passes the same filter to the listing and to
\* the removal, and removes only containers that are not running; the stop
\* and kill of up's interrupt path pass no such filter.
C15_OneOffOnlyWhenIncluded ==
    /\ cmd = "rm" =>
          \A i \in CallsOf("project.remove_stopped") :
              /\ calls[i].one_off = (IF opts.all THEN "include" ELSE "exclude")
              /\ \E j \in CallsOf("project.containers") :
                    j < i /\ calls[j].one_off = calls[i].one_off
              /\ \A c \in calls[i].removed :
                    /\ c \in opts.existing
                    /\ ~IsRunning(c)
                    /\ IsOneOff(c) => opts.all
              /\ calls[i].removed # {}
              /\ opts.all =>
                    { c \in opts.existing : IsOneOff(c) /\ ~IsRunning(c) }
                        \subseteq calls[i].removed
    /\ cmd = "up" =>
          \A i \in CallsOf("project.stop") \cup CallsOf("project.kill") :
              calls[i].one_off = "default"

C15_Witness ==
    /\ cmd = "rm" /\ pc = "done" /\ opts.all
    /\ opts.existing = Containers
    /\ \E i \in CallsOf("project.remove_stopped") :
          calls[i].removed = {"service_stopped", "one_off_stopped"}

\* C16: with run --no-deps no project.up is performed; without it, when the
\* service has dependencies, they are brought up by a single project.up with
\* the strategy never, issued and returned before the one-off container is
\* created and started.
C16_DepsUpBeforeOneOff ==
    cmd = "run" =>
        /\ opts.no_deps => CountOp("project.up") = 0
        /\ (~opts.no_deps /\ opts.has_deps /\ pc # "start") =>
              /\ calls # << >>
              /\ calls[1] = Call("project.up", {"deps"}, NoTimeout, "never", "-")
              /\ CallsOf("project.up") = {1}
        /\ pc = "deps_up" =>
              /\ CountOp("service.create_container") = 0
              /\ CountOp("service.start_container") = 0
        /\ \A i \in CallsOf("project.up") :
              \A k \in CallsOf("service.create_container")
                         \cup CallsOf("service.start_container") : i < k

C16_Witness ==
    /\ cmd = "run" /\ ~opts.no_deps /\ opts.has_deps
    /\ CountOp("project.up") = 1
    /\ CountOp("service.create_container") = 1
    /\ CountOp("service.start_container") = 1

C16_WitnessNoDeps ==
    /\ cmd = "run" /\ opts.no_deps /\ opts.has_deps
    /\ CountOp("service.start_container") = 1

\* C17: exec or port asked for a replica index the service has no container
\* of ends with exit code 1 without any call on a container (no exec
\* created or started) and with the default signal handler still in place.
C17_MissingIndexFailsFirst ==
    (cmd \in {"exec", "port"} /\ ~opts.index_ok /\ pc # "start") =>
        /\ pc = "done" /\ exitCode = 1
        /\ calls = << >>
        /\ handler = "default"
        /\ bridged = "none"

C17_Witness ==
    /\ cmd = "exec" /\ ~opts.index_ok /\ ~opts.d
    /\ pc = "done" /\ exitCode = 1

C17_WitnessPort ==
    /\ cmd = "port" /\ ~opts.index_ok
    /\ pc = "done" /\ exitCode = 1

\* whether a SERVICE=NUM argument is malformed: no '=', or a count after the
\* first '=' that is not an integer
Malformed(s) ==
    \/ \A i \in 1..Len(s) : s[i] # "="
    \/ s \in {<<"web", "=", "x">>, <<"web", "=", "2", "=", "1">>}

\* the number of services scaled so far
Scaled == CountOp("service.scale")

\* C18: scale takes its arguments in the order given and checks each one
\* just before applying it: the services scaled are those of a prefix of the
\* arguments, in order and with the count and timeout given, and when the
\* command ends on a malformed argument k it has raised a user error, scaled
\* the services of the arguments 1..k-1 and none of the arguments k..n.
C18_ScaleInOrderUntilMalformed ==
    cmd = "scale" =>
        /\ Scaled <= Len(opts.args)
        /\ CallsOf("service.scale") = 1..Scaled
        /\ \A i \in 1..Scaled :
              /\ ~Malformed(opts.args[i])
              /\ calls[i].names = {opts.args[i][1]}
              /\ calls[i].num = (IF opts.args[i] = <<"web", "=", "2">> THEN 2
                                 ELSE IF opts.args[i] = <<"db", "=", "1", "0">>
                                 THEN 10 ELSE 1)
              /\ calls[i].timeout = Timeout(opts)
        /\ (pc = "done" /\ intAt = << >>) =>
              IF Scaled = Len(opts.args)
              THEN exitCode = 0 /\ CountOp("raise") = 0
              ELSE /\ exitCode = 1
                   /\ \A i \in 1..Scaled : ~Malformed(opts.args[i])
                   /\ Len(calls) = Scaled + 1
                   /\ Malformed(opts.args[Scaled + 1]) =>
                         calls[Scaled + 1].names = {"UserError"}
                   /\ ~Malformed(opts.args[Scaled + 1]) =>
                         /\ opts.args[Scaled + 1][1] \notin Services
                         /\ calls[Scaled + 1].names = {"NoSuchService"}
        /\ (\E k \in 1..Len(opts.args) : Malformed(opts.args[k])) =>
              Scaled < (CHOOSE k \in 1..Len(opts.args) :
                            /\ Malformed(opts.args[k])
                            /\ \A h \in 1..(k - 1) : ~Malformed(opts.args[h]))

C18_Witness ==
    /\ cmd = "scale" /\ pc = "done" /\ intAt = << >>
    /\ opts.args = << <<"db", "=", "1", "0">>, <<"web", "=", "2">>,
                      <<"web", "=", "2", "=", "1">> >>
    /\ Scaled = 2 /\ exitCode = 1
    /\ calls[1].names = {"db"} /\ calls[2].names = {"web"}

C18_WitnessMiddle ==
    /\ cmd = "scale" /\ pc = "done" /\ intAt = << >>
    /\ opts.args = << <<"web", "=", "2">>, <<"web">>, <<"db", "=", "1", "0">> >>
    /\ Scaled = 1 /\ exitCode = 1

====
